---- MODULE Spec2Model ----
(***************************************************************************)
(* Bitcoin peer monitor: the peer-snapshot refresh loops (the curses loop  *)
(* of peers.py, the rich screen loops of peers_monitor.py, peers_rich.py   *)
(* and peers_rich2.py) and the pure row functions they call.               *)
(*                                                                         *)
(* Text is a sequence of one-character strings, so that Python's substring *)
(* test, join, slicing and int(s, 16) are computed, not assumed.           *)
(* A JSON value of a peer record carries its type: [t |-> "str", s |-> _], *)
(* [t |-> "int", n |-> _], [t |-> "num", ms |-> _] (a float, in whole      *)
(* milliseconds), [t |-> "null"], and [t |-> "absent"] for a missing key.  *)
(* A Python call returns [ok |-> TRUE, v |-> value] or raises:             *)
(* [ok |-> FALSE, exc |-> name of the exception].                          *)
(***************************************************************************)
EXTENDS Integers, Sequences, FiniteSets, TLC

VARIABLES
    variant,      \* which script runs: "curses" (peers.py), "rich" (peers_rich.py), "monitor" (peers_monitor.py, peers_rich2.py)
    state,        \* position of the loop: Idle, Fetching, Rendering, Waiting, Cancelled, Crashed
    waitpc,       \* curses wait loop: "getch" (about to poll) or "napms" (sleeping 100 ms)
    polls,        \* curses wait loop: iterations of range(refresh_rate * 10) still to run
    keybuf,       \* curses input queue: keys typed and not yet read by getch()
    outcome,      \* what the last get_peer_info() call met: none, ok, nonzero, unreachable, badjson, hung
    snapshot,     \* the peer list the last fetch returned
    surface,      \* what the terminal shows
    fetches,      \* number of get_peer_info() calls started
    banRequests,  \* ips handed to "bitcoin-cli setban <ip> add"
    sig,          \* history: where the loop was when the first cancellation signal arrived
    fnIn,         \* the call under test of the function-level specification
    fnOut         \* its result

loopVars == <<variant, state, waitpc, polls, keybuf, outcome, snapshot, surface,
              fetches, banRequests, sig>>
fnVars == <<fnIn, fnOut>>
vars == <<variant, state, waitpc, polls, keybuf, outcome, snapshot, surface,
          fetches, banRequests, sig, fnIn, fnOut>>

-----------------------------------------------------------------------------
(* Bounds of the model *)

\* longest services hex string drawn
MaxHexLen == 3
\* peers in one snapshot
MaxPeers == 2
\* fetches one run of a loop may start
MaxFetches == 2
\* keys that may sit unread in the curses input queue
MaxKeys == 2
\* largest elapsed time drawn for connection_duration, in seconds
MaxElapsed == 90000
\* largest amount by which conntime may lie in the future of now, in seconds
MaxSkew == 5

-----------------------------------------------------------------------------
(* Python values and text *)

Ok(v) == [ok |-> TRUE, v |-> v]
Raise(e) == [ok |-> FALSE, exc |-> e]

JStr(s) == [t |-> "str", s |-> s]
JInt(n) == [t |-> "int", n |-> n]
JNum(ms) == [t |-> "num", ms |-> ms]
JNull == [t |-> "null"]
Absent == [t |-> "absent"]

\* dict.get(key, default)
Get(field, default) == IF field.t = "absent" THEN default ELSE field

RECURSIVE Pow2(_)
Pow2(k) == IF k = 0 THEN 1 ELSE 2 * Pow2(k - 1)

\* Python's a & b on non-negative integers
RECURSIVE BitAnd(_, _)
BitAnd(a, b) ==
    IF a = 0 \/ b = 0 THEN 0
    ELSE (a % 2) * (b % 2) + 2 * BitAnd(a \div 2, b \div 2)

\* sep.join(list)
RECURSIVE Join(_, _)
Join(list, sep) ==
    IF list = <<>> THEN <<>>
    ELSE IF Len(list) = 1 THEN list[1]
    ELSE list[1] \o sep \o Join(Tail(list), sep)

\* needle in hay, on str
Contains(hay, needle) ==
    \E i \in 1..(Len(hay) - Len(needle) + 1) :
        SubSeq(hay, i, i + Len(needle) - 1) = needle

DigitChars == <<"0", "1", "2", "3", "4", "5", "6", "7", "8", "9">>
HexChars == DigitChars \o <<"a", "b", "c", "d", "e", "f">>

IsDigit(c) == \E d \in 1..10 : DigitChars[d] = c
IsHex(c) == \E d \in 1..16 : HexChars[d] = c
HexVal(c) == (CHOOSE d \in 1..16 : HexChars[d] = c) - 1

\* str(n) for an integer
RECURSIVE NatStr(_)
NatStr(n) == IF n < 10 THEN <<DigitChars[n + 1]>>
             ELSE NatStr(n \div 10) \o <<DigitChars[(n % 10) + 1]>>
IntStr(n) == IF n < 0 THEN <<"-">> \o NatStr(-n) ELSE NatStr(n)

\* f"{n:0w}": sign-aware zero padding to a minimum width w
RECURSIVE Zeros(_)
Zeros(k) == IF k <= 0 THEN <<>> ELSE <<"0">> \o Zeros(k - 1)
ZeroPad(n, w) ==
    IF n < 0 THEN <<"-">> \o Zeros(w - 1 - Len(NatStr(-n))) \o NatStr(-n)
    ELSE Zeros(w - Len(NatStr(n))) \o NatStr(n)

\* int(s, 16) on a str over the characters the model draws (lower-case hex
\* digits and other letters; no sign, prefix, underscore or white space)
RECURSIVE HexDigitsVal(_, _)
HexDigitsVal(s, acc) ==
    IF s = <<>> THEN acc
    ELSE HexDigitsVal(Tail(s), 16 * acc + HexVal(Head(s)))
IntBase16(x) ==
    IF x.t # "str" THEN Raise("TypeError")
    ELSE IF x.s = <<>> \/ \E i \in 1..Len(x.s) : ~IsHex(x.s[i]) THEN Raise("ValueError")
    ELSE Ok(HexDigitsVal(x.s, 0))

-----------------------------------------------------------------------------
(* Service flags *)

NODE_NETWORK == Pow2(0)
NODE_WITNESS_bit2 == Pow2(2)
NODE_WITNESS == Pow2(3)
NODE_COMPACT_FILTERS == Pow2(6)
NODE_NETWORK_LIMITED == Pow2(10)

\* the (bit, tag) pairs in the order the if-chain of decode_services tests them
ServiceFlags == <<NODE_NETWORK, NODE_WITNESS, NODE_COMPACT_FILTERS, NODE_NETWORK_LIMITED>>
TagsLong == << <<"N", "_", "N">>, <<"N", "_", "W">>, <<"N", "_", "C", "_", "F">>,
               <<"N", "_", "N", "_", "L">> >>
TagsShort == << <<"N">>, <<"W">>, <<"C", "_", "F">>, <<"N", "_", "L">> >>

CommaSpace == <<",", " ">>

\* services_list after the four if statements
RECURSIVE ServicesList(_, _, _)
ServicesList(services_int, tags, i) ==
    IF i > Len(ServiceFlags) THEN <<>>
    ELSE (IF BitAnd(services_int, ServiceFlags[i]) # 0 THEN <<tags[i]>> ELSE <<>>)
         \o ServicesList(services_int, tags, i + 1)

DecodeWith(services_hex, tags) ==
    LET services_int == IntBase16(services_hex)
    IN  IF ~services_int.ok THEN services_int
        ELSE Ok(Join(ServicesList(services_int.v, tags, 1), CommaSpace))

\* peers.py and peers_rich.py
decode_services(services_hex) == DecodeWith(services_hex, TagsLong)

\* peers_monitor.py and peers_rich2.py
decode_services_monitor(services_hex) == DecodeWith(services_hex, TagsShort)

\* peerinfo2.py: SERVICES, in insertion order
SERVICES == << [bit |-> 1, name |-> "NODE_NETWORK"],
               [bit |-> 2, name |-> "NODE_GETUTXOS"],
               [bit |-> 4, name |-> "NODE_BLOOM"],
               [bit |-> 8, name |-> "NODE_WITNESS"],
               [bit |-> 16, name |-> "NODE_XTHIN"],
               [bit |-> Pow2(30), name |-> "NODE_NETWORK_LIMITED"] >>

RECURSIVE TranslateFrom(_, _)
TranslateFrom(services_bitmask, i) ==
    IF i > Len(SERVICES) THEN <<>>
    ELSE (IF BitAnd(services_bitmask, SERVICES[i].bit) # 0
          THEN <<SERVICES[i].name>> ELSE <<>>)
         \o TranslateFrom(services_bitmask, i + 1)

translate_services(services_bitmask) == TranslateFrom(services_bitmask, 1)

-----------------------------------------------------------------------------
(* Field formatters *)

Colon == <<":">>

HMS(duration) ==
    LET hours == duration \div 3600
        remainder == duration % 3600
        minutes == remainder \div 60
        seconds == remainder % 60
    IN  ZeroPad(hours, 2) \o Colon \o ZeroPad(minutes, 2) \o Colon \o ZeroPad(seconds, 2)

\* f"{days:.1f} days" with days = duration / 86400, duration > 86400 whole
\* seconds. A tie (duration = 4320 * odd) is rounded to even here; Python
\* rounds the nearest double, so the model draws no tie.
DaysText(duration) ==
    LET q == (duration * 10) \div 86400
        r == (duration * 10) % 86400
        tenths == IF 2 * r > 86400 \/ (2 * r = 86400 /\ q % 2 = 1) THEN q + 1 ELSE q
    IN  IntStr(tenths \div 10) \o <<".">> \o NatStr(tenths % 10)
        \o <<" ", "d", "a", "y", "s">>

\* peers.py and peers_rich.py; now is datetime.now(), in whole seconds
connection_duration(connected_since, now) ==
    HMS(now - connected_since)

\* peers_monitor.py and peers_rich2.py
connection_duration_monitor(connected_since, now) ==
    LET duration == now - connected_since
    IN  IF duration <= 86400 THEN HMS(duration) ELSE DaysText(duration)

NA == <<"N", "/", "A">>

RECURSIVE DecDigitsVal(_, _)
DecDigitsVal(s, acc) ==
    IF s = <<>> THEN acc
    ELSE DecDigitsVal(Tail(s), 10 * acc + HexVal(Head(s)))

\* float(s) of a str, in milliseconds: digits with at most one point, as far
\* as the drawn characters go (no sign, exponent, inf, nan or white space;
\* at most three digits after the point)
FloatOfStr(s) ==
    LET dots == {i \in 1..Len(s) : s[i] = "."}
        digits == {i \in 1..Len(s) : IsDigit(s[i])}
        dot == IF dots = {} THEN Len(s) + 1 ELSE CHOOSE i \in dots : TRUE
        whole == SubSeq(s, 1, dot - 1)
        frac == SubSeq(s, dot + 1, Len(s))
        frac3 == SubSeq(frac \o <<"0", "0", "0">>, 1, 3)
    IN  IF Cardinality(dots) > 1 \/ digits = {}
           \/ Cardinality(dots) + Cardinality(digits) # Len(s)
        THEN Raise("ValueError")
        ELSE Ok(1000 * DecDigitsVal(whole, 0) + DecDigitsVal(frac3, 0))

\* float(x) of a JSON value, in milliseconds
Float(x) ==
    CASE x.t = "num" -> Ok(x.ms)
      [] x.t = "int" -> Ok(1000 * x.n)
      [] x.t = "str" -> FloatOfStr(x.s)
      [] OTHER -> Raise("TypeError")

\* f"{v:.3f}" of a non-negative value given in milliseconds
Fixed3(ms) == NatStr(ms \div 1000) \o <<".">> \o ZeroPad(ms % 1000, 3)

format_pingtime(pingtime) ==
    IF pingtime = JStr(NA) THEN Ok(NA)
    ELSE LET f == Float(pingtime)
         IN  IF f.ok THEN Ok(Fixed3(f.v))
             ELSE IF f.exc = "ValueError" THEN Ok(NA)
             ELSE f

Ellipsis == <<".", ".", ".">>
truncate_with_ellipsis(s, N) ==
    IF Len(s) > N THEN SubSeq(s, 1, N) \o Ellipsis ELSE s

-----------------------------------------------------------------------------
(* Row builders.  A peer is [id, addr, conntime, services, subver,         *)
(* pingtime, banscore]; the columns no rule of the monitor reads (version, *)
(* byte counters, direction, sync heights, relay flag) are left out.       *)

\* a list comprehension or for loop over calls that may raise: the first
\* exception ends it
Collect(results) ==
    LET bad == {i \in 1..Len(results) : ~results[i].ok}
    IN  IF bad = {} THEN Ok([i \in 1..Len(results) |-> results[i].v])
        ELSE results[CHOOSE i \in bad : \A j \in bad : i <= j]

\* peers.py: one row of the tabulate table
format_peer_data(peer, now) ==
    LET services == decode_services(Get(peer.services, JStr(<<"0">>)))
        ping == format_pingtime(Get(peer.pingtime, JStr(NA)))
    IN  IF ~services.ok THEN services
        ELSE IF ~ping.ok THEN ping
        ELSE Ok([id |-> peer.id,
                 addr |-> peer.addr,
                 connected |-> connection_duration(Get(peer.conntime, JInt(0)).n, now),
                 services |-> services.v,
                 subver |-> peer.subver,
                 ping |-> ping.v,
                 banscore |-> Get(peer.banscore, JStr(NA)),
                 style |-> "none"])

format_peer_info(peers, now) ==
    Collect([i \in 1..Len(peers) |-> format_peer_data(peers[i], now)])

\* peers_rich.py: one iteration of the loop over peers of build_peer_table
RichRow(peer, now) ==
    LET services == decode_services(Get(peer.services, JStr(<<"0">>)))
        ping == format_pingtime(Get(peer.pingtime, JStr(NA)))
    IN  IF ~services.ok THEN services
        ELSE IF ~ping.ok THEN ping
        ELSE LET is_missing_node_network == ~Contains(services.v, TagsLong[1])
             IN  Ok([id |-> peer.id,
                     addr |-> peer.addr,
                     connected |-> connection_duration(Get(peer.conntime, JInt(0)).n, now),
                     services |-> services.v,
                     subver |-> peer.subver,
                     ping |-> ping.v,
                     banscore |-> Get(peer.banscore, JStr(NA)),
                     style |-> IF is_missing_node_network THEN "yellow" ELSE "none"])

build_peer_table(peers, now) ==
    Collect([i \in 1..Len(peers) |-> RichRow(peers[i], now)])

\* peers_monitor.py (peers_rich2.py is the same with width 23 and a
\* required subver)
SubverWidth == 20
MonitorRow(peer, now) ==
    LET services == decode_services_monitor(Get(peer.services, JStr(<<"0">>)))
        ping == format_pingtime(Get(peer.pingtime, JStr(NA)))
    IN  IF ~services.ok THEN services
        ELSE IF ~ping.ok THEN ping
        ELSE LET is_missing_node_network == ~Contains(services.v, TagsShort[1])
             IN  Ok([id |-> peer.id,
                     connected |-> connection_duration_monitor(
                                       Get(peer.conntime, JInt(0)).n, now),
                     services |-> services.v,
                     subver |-> truncate_with_ellipsis(peer.subver, SubverWidth),
                     ping |-> ping.v,
                     style |-> IF is_missing_node_network THEN "yellow" ELSE "none"])

build_peer_table_monitor(peers, now) ==
    Collect([i \in 1..Len(peers) |-> MonitorRow(peers[i], now)])

-----------------------------------------------------------------------------
(* Policy: peers.py, analyze_peers and ban_peer *)

\* peer_ip_port.split(":")[0]
SplitFirstColon(peer_ip_port) ==
    LET colons == {i \in 1..Len(peer_ip_port) : peer_ip_port[i] = ":"}
    IN  IF colons = {} THEN peer_ip_port
        ELSE SubSeq(peer_ip_port, 1, (CHOOSE i \in colons : \A j \in colons : i <= j) - 1)

\* the ip handed to "bitcoin-cli setban <ip> add"
ban_peer(peer_ip_port) == SplitFirstColon(peer_ip_port)

\* the literal of "if banscore > 100"
BanScoreLimit == 100

\* one iteration of the loop of analyze_peers: what it does for one peer
PeerAction(peer) ==
    LET ip == peer.addr
        banscore == Get(peer.banscore, JInt(0))
        services == decode_services(Get(peer.services, JStr(<<"0">>)))
    IN  IF ~services.ok THEN services
        ELSE IF banscore.t # "int" THEN Raise("TypeError")
        ELSE IF banscore.n > BanScoreLimit
             THEN Ok([act |-> "RequestBan", target |-> ban_peer(ip)])
        ELSE IF ~Contains(services.v, TagsLong[1])
             THEN Ok([act |-> "Warn", target |-> ip])
        ELSE Ok([act |-> "None", target |-> ip])

\* analyze_peers: the actions taken, in order, up to the first peer whose
\* record raises, and the exception that ended the loop (if any)
analyze_peers(peers) ==
    LET results == [i \in 1..Len(peers) |-> PeerAction(peers[i])]
        bad == {i \in 1..Len(peers) : ~results[i].ok}
        stop == IF bad = {} THEN Len(peers) + 1
                ELSE CHOOSE i \in bad : \A j \in bad : i <= j
    IN  [actions |-> [i \in 1..(stop - 1) |-> results[i].v],
         exc |-> IF bad = {} THEN "none" ELSE results[stop].exc]

-----------------------------------------------------------------------------
(* The peer source: bitcoin-cli getpeerinfo *)

\* datetime.now() of the run, in whole seconds
EpochNow == 2 * MaxElapsed
Clock == {EpochNow}

Subver == <<"/", "S", ":", "2", "/">>
Peer(id, addr, elapsed, services, pingtime, banscore) ==
    [id |-> id, addr |-> addr, conntime |-> JInt(EpochNow - elapsed),
     services |-> services, subver |-> Subver, pingtime |-> pingtime,
     banscore |-> banscore]

\* peer records a node may report (or, for the last two, a record with a
\* field of an unexpected shape): nominal; over the ban score limit and
\* without NETWORK; pruned (NETWORK_LIMITED without NETWORK); services that
\* is no hex string; pingtime null
PeerPool ==
    { Peer(1, <<"1", ".", "2", ":", "8">>, 3661, JStr(<<"4", "0", "9">>), JNum(125), Absent),
      Peer(2, <<"3", ".", "4", ":", "8">>, 0, JStr(<<"8">>), Absent, JInt(150)),
      Peer(3, <<"5", ".", "6", ":", "8">>, 90000, JStr(<<"4", "0", "8">>), JNum(20), JInt(0)),
      Peer(4, <<"7", ".", "8", ":", "8">>, 60, JStr(<<"z", "z">>), JNum(9), Absent),
      Peer(5, <<"9", ".", "1", ":", "8">>, 61, JStr(<<"9">>), JNull, Absent) }

RECURSIVE SeqsUpTo(_, _)
SeqsUpTo(S, n) ==
    IF n = 0 THEN {<<>>}
    ELSE LET shorter == SeqsUpTo(S, n - 1)
         IN  shorter \cup {Append(q, x) : q \in {r \in shorter : Len(r) = n - 1}, x \in S}

\* a snapshot lists a peer once
Snapshots ==
    {q \in SeqsUpTo(PeerPool, MaxPeers) : \A i, j \in 1..Len(q) : q[i] = q[j] => i = j}

\* what one run of the command can meet
FetchOutcomes == {"ok", "nonzero", "unreachable", "badjson"}

\* peers.py: check=True, and CalledProcessError alone is caught
get_peer_info(oc, peers) ==
    CASE oc = "ok" -> Ok(peers)
      [] oc = "nonzero" -> Ok(<<>>)
      [] oc = "unreachable" -> Raise("FileNotFoundError")
      [] oc = "badjson" -> Raise("JSONDecodeError")

\* peers_rich.py, peers_monitor.py, peers_rich2.py: no check, nothing caught;
\* a command that exits non-zero leaves stdout empty, which is not JSON
get_peer_info_rich(oc, peers) ==
    CASE oc = "ok" -> Ok(peers)
      [] oc = "nonzero" -> Raise("JSONDecodeError")
      [] oc = "unreachable" -> Raise("FileNotFoundError")
      [] oc = "badjson" -> Raise("JSONDecodeError")

-----------------------------------------------------------------------------
(* The terminal *)

Blank == [kind |-> "blank", rows |-> <<>>, exc |-> "none", cycle |-> 0, from |-> "none"]
\* the table of cycle c, built from a fetch that met oc
Table(rows, c, oc) == [kind |-> "table", rows |-> rows, exc |-> "none", cycle |-> c, from |-> oc]
\* peers.py: "Error: {e}" on a cleared screen
ErrorBanner(e, c, oc) == [kind |-> "error", rows |-> <<>>, exc |-> e, cycle |-> c, from |-> oc]
\* the screen is given back and "Exiting..." or nothing is printed
Exited == [kind |-> "exited", rows |-> <<>>, exc |-> "none", cycle |-> 0, from |-> "none"]
\* the screen is given back and Python prints the traceback of e
Traceback(e) == [kind |-> "traceback", rows |-> <<>>, exc |-> e, cycle |-> 0, from |-> "none"]

NoSignal == [kind |-> "none", at |-> "none", cycle |-> 0]
Signal(k) == IF sig = NoSignal THEN [kind |-> k, at |-> state, cycle |-> fetches] ELSE sig

NoCall == [fn |-> "none"]

-----------------------------------------------------------------------------
(* The curses loop: peers.py, display_real_time *)

refresh_rate == 5
PollsPerWait == refresh_rate * 10

Running == state \in {"Fetching", "Rendering", "Waiting"}

\* curses.wrapper(display_real_time), up to the first get_peer_info() call;
\* and the rich scripts, up to theirs
Start ==
    /\ state = "Idle"
    /\ state' = "Fetching"
    /\ fetches' = 1
    /\ UNCHANGED <<variant, waitpc, polls, keybuf, outcome, snapshot, surface,
                   banRequests, sig, fnIn, fnOut>>

\* the refresh and the entry of the wait loop
EnterWait(shown) ==
    /\ surface' = shown
    /\ state' = "Waiting"
    /\ waitpc' = "getch"
    /\ polls' = PollsPerWait

\* subprocess.run([...], capture_output=True, text=True) is called without
\* timeout=, in every script: when bitcoin-cli never exits (the node does not
\* answer the RPC), the call waits for it for ever and get_peer_info() never
\* returns
FetchHangs ==
    /\ state = "Fetching" /\ outcome # "hung"
    /\ outcome' = "hung"
    /\ UNCHANGED <<variant, state, waitpc, polls, keybuf, snapshot, surface,
                   fetches, banRequests, sig, fnIn, fnOut>>

\* lines 171-173 and 182-186: get_peer_info() returns or raises
CursesFetch ==
    /\ variant = "curses" /\ state = "Fetching" /\ outcome # "hung"
    /\ \E oc \in FetchOutcomes, peers \in Snapshots :
          LET r == get_peer_info(oc, peers)
          IN  /\ oc # "ok" => peers = <<>>
              /\ outcome' = oc
              /\ IF r.ok
                 THEN /\ snapshot' = r.v
                      /\ state' = "Rendering"
                      /\ UNCHANGED <<surface, waitpc, polls>>
                 ELSE /\ snapshot' = <<>>
                      /\ EnterWait(ErrorBanner(r.exc, fetches, oc))
    /\ UNCHANGED <<variant, keybuf, fetches, banRequests, sig, fnIn, fnOut>>

\* tabulate(table_data, headers=..., colalign=align): the installed tabulate
\* decides what an empty table_data gives, a table of the headings alone or
\* IndexError from the column alignment (releases before 0.9)
Tabulate(table_data) ==
    IF table_data = <<>> THEN {Ok(table_data), Raise("IndexError")}
    ELSE {Ok(table_data)}

\* lines 174-186: the rows, the table, the refresh
CursesRenderPollsKey ==
    /\ variant = "curses" /\ state = "Rendering"
    /\ IF keybuf # <<>> /\ Head(keybuf) = "q"
       THEN /\ state' = "Cancelled"
            /\ surface' = Exited
            /\ UNCHANGED <<waitpc, polls>>
       ELSE \E now \in Clock :
              LET table_data == format_peer_info(snapshot, now)
              IN  IF table_data.ok
                  THEN \E table \in Tabulate(table_data.v) :
                         IF table.ok
                         THEN EnterWait(Table(table.v, fetches, outcome))
                         ELSE EnterWait(ErrorBanner(table.exc, fetches, outcome))
                  ELSE EnterWait(ErrorBanner(table_data.exc, fetches, outcome))
    /\ UNCHANGED <<variant, keybuf, outcome, snapshot, fetches, banRequests, sig,
                   fnIn, fnOut>>
CursesRender ==
    /\ variant = "curses" /\ state = "Rendering"
    /\ \E now \in Clock :
          LET table_data == format_peer_info(snapshot, now)
          IN  IF table_data.ok
              THEN \E table \in Tabulate(table_data.v) :
                     IF table.ok
                     THEN EnterWait(Table(table.v, fetches, outcome))
                     ELSE EnterWait(ErrorBanner(table.exc, fetches, outcome))
              ELSE EnterWait(ErrorBanner(table_data.exc, fetches, outcome))
    /\ UNCHANGED <<variant, keybuf, outcome, snapshot, fetches, banRequests, sig,
                   fnIn, fnOut>>

\* lines 190-192: key = stdscr.getch(); 'q' returns
CursesGetch ==
    /\ variant = "curses" /\ state = "Waiting" /\ waitpc = "getch"
    /\ IF keybuf # <<>> /\ Head(keybuf) = "q"
       THEN /\ state' = "Cancelled"
            /\ surface' = Exited
            /\ UNCHANGED waitpc
       ELSE /\ waitpc' = "napms"
            /\ UNCHANGED <<state, surface>>
    /\ keybuf' = IF keybuf = <<>> THEN keybuf ELSE Tail(keybuf)
    /\ UNCHANGED <<variant, polls, outcome, snapshot, fetches, banRequests, sig,
                   fnIn, fnOut>>

\* line 193 and the end of the for loop: after the last nap the while loop
\* starts over, with stdscr.clear() and the next get_peer_info() call
CursesNapmsOnce ==
    /\ variant = "curses" /\ state = "Waiting" /\ waitpc = "napms"
    /\ fetches < MaxFetches
    /\ state' = "Fetching"
    /\ fetches' = fetches + 1
    /\ UNCHANGED <<variant, waitpc, polls, keybuf, outcome, snapshot, surface,
                   banRequests, sig, fnIn, fnOut>>
CursesNapms ==
    /\ variant = "curses" /\ state = "Waiting" /\ waitpc = "napms"
    /\ IF polls > 1
       THEN /\ polls' = polls - 1
            /\ waitpc' = "getch"
            /\ UNCHANGED <<state, fetches>>
       ELSE /\ fetches < MaxFetches
            /\ state' = "Fetching"
            /\ fetches' = fetches + 1
            /\ UNCHANGED <<polls, waitpc>>
    /\ UNCHANGED <<variant, keybuf, outcome, snapshot, surface, banRequests, sig,
                   fnIn, fnOut>>

\* the user types a key; curses queues it until getch() reads it
Keys == {"q", "x"}
KeyPress ==
    /\ variant = "curses" /\ Running
    /\ Len(keybuf) < MaxKeys
    /\ \E k \in Keys :
          /\ keybuf' = Append(keybuf, k)
          /\ sig' = IF k = "q" THEN Signal("q") ELSE sig
    /\ UNCHANGED <<variant, state, waitpc, polls, outcome, snapshot, surface,
                   fetches, banRequests, fnIn, fnOut>>

\* Ctrl+C in the curses loop: KeyboardInterrupt is no Exception, so line 182
\* does not catch it and it leaves curses.wrapper as a traceback
CursesInterrupt ==
    /\ variant = "curses" /\ Running
    /\ state' = "Crashed"
    /\ surface' = Traceback("KeyboardInterrupt")
    /\ sig' = Signal("int")
    /\ UNCHANGED <<variant, waitpc, polls, keybuf, outcome, snapshot, fetches,
                   banRequests, fnIn, fnOut>>

-----------------------------------------------------------------------------
(* The rich screen loops: peers_rich.py, peers_monitor.py, peers_rich2.py *)

Rich == variant \in {"rich", "monitor"}

\* an exception other than KeyboardInterrupt leaves the while loop, the try
\* and the with statement
Crash(e) ==
    /\ state' = "Crashed"
    /\ surface' = Traceback(e)

\* peers = get_peer_info()
RichFetch ==
    /\ Rich /\ state = "Fetching" /\ outcome # "hung"
    /\ \E oc \in FetchOutcomes, peers \in Snapshots :
          LET r == get_peer_info_rich(oc, peers)
          IN  /\ oc # "ok" => peers = <<>>
              /\ outcome' = oc
              /\ IF r.ok
                 THEN /\ snapshot' = r.v
                      /\ state' = "Rendering"
                      /\ UNCHANGED surface
                 ELSE /\ snapshot' = <<>>
                      /\ Crash(r.exc)
    /\ UNCHANGED <<variant, waitpc, polls, keybuf, fetches, banRequests, sig,
                   fnIn, fnOut>>

\* table = build_peer_table(peers); screen.update(table)
RichRender ==
    /\ Rich /\ state = "Rendering"
    /\ \E now \in Clock :
          LET table == IF variant = "rich" THEN build_peer_table(snapshot, now)
                       ELSE build_peer_table_monitor(snapshot, now)
          IN  IF table.ok
              THEN /\ surface' = Table(table.v, fetches, outcome)
                   /\ state' = "Waiting"
              ELSE Crash(table.exc)
    /\ UNCHANGED <<variant, waitpc, polls, keybuf, outcome, snapshot, fetches,
                   banRequests, sig, fnIn, fnOut>>

\* sleep(5), sleep(15) or sleep(10) returns and the while loop starts over
RichSleep ==
    /\ Rich /\ state = "Waiting"
    /\ fetches < MaxFetches
    /\ state' = "Fetching"
    /\ fetches' = fetches + 1
    /\ UNCHANGED <<variant, waitpc, polls, keybuf, outcome, snapshot, surface,
                   banRequests, sig, fnIn, fnOut>>

\* Ctrl+C: KeyboardInterrupt is raised wherever the main thread is, and the
\* except clause around the while loop prints "Exiting..."
RichInterrupt ==
    /\ Rich /\ Running
    /\ state' = "Cancelled"
    /\ surface' = Exited
    /\ sig' = Signal("int")
    /\ UNCHANGED <<variant, waitpc, polls, keybuf, outcome, snapshot, fetches,
                   banRequests, fnIn, fnOut>>

-----------------------------------------------------------------------------
(* The loops *)

Init ==
    /\ variant \in {"curses", "rich", "monitor"}
    /\ state = "Idle"
    /\ waitpc = "getch"
    /\ polls = PollsPerWait
    /\ keybuf = <<>>
    /\ outcome = "none"
    /\ snapshot = <<>>
    /\ surface = Blank
    /\ fetches = 0
    /\ banRequests = <<>>
    /\ sig = NoSignal
    /\ fnIn = NoCall
    /\ fnOut = NoCall

Next ==
    \/ Start
    \/ FetchHangs
    \/ CursesFetch
    \/ CursesRender
    \/ CursesGetch
    \/ CursesNapms
    \/ KeyPress
    \/ CursesInterrupt
    \/ RichFetch
    \/ RichRender
    \/ RichSleep
    \/ RichInterrupt

Spec == Init /\ [][Next]_vars

\* What the interpreter does on its own: the main thread runs its next
\* statement, and a bitcoin-cli that is not hung exits. The user's keys and
\* interrupts, and the hang of the command, are the environment's and are
\* promised nothing.
ProgramStep ==
    \/ Start
    \/ CursesFetch
    \/ CursesRender
    \/ CursesGetch
    \/ CursesNapms
    \/ RichFetch
    \/ RichRender
    \/ RichSleep

SpecLive == Spec /\ WF_vars(ProgramStep)

-----------------------------------------------------------------------------
(* The functions on their own: one call, its argument drawn at the start *)

HexAlphabet == {HexChars[i] : i \in 1..16} \cup {"z"}
ServicesArgs ==
    {JStr(h) : h \in SeqsUpTo(HexAlphabet, MaxHexLen)} \cup {JInt(1033), JNull}

\* bit positions the drawn integer masks are made of
MaskBits == {0, 1, 2, 3, 4, 5, 10, 30}
RECURSIVE SumPow2(_)
SumPow2(B) == IF B = {} THEN 0
              ELSE LET b == CHOOSE x \in B : TRUE IN Pow2(b) + SumPow2(B \ {b})
Masks == {SumPow2(B) : B \in SUBSET MaskBits}

\* elapsed times drawn; a tie of the .1f rounding is not drawn
Elapsed == {e \in (0 - MaxSkew)..MaxElapsed : e % 8640 # 4320 \/ e <= 86400}

PingArgs ==
    { JStr(NA), JNum(0), JNum(125), JInt(2), JNull,
      JStr(<<"0", ".", "1", "2", "5">>), JStr(<<"1", ".">>), JStr(<<".", "5">>),
      JStr(<<"1", ".", "2", ".", "3">>), JStr(<<"o", "o", "p", "s">>) }

PolicyPool ==
    { Peer(1, <<"1", ".", "2", ":", "8">>, 60, sv, Absent, bs) :
        sv \in {Absent, JStr(<<"0">>), JStr(<<"1">>), JStr(<<"8">>), JStr(<<"9">>),
                JStr(<<"4", "0", "0">>), JStr(<<"4", "0", "8">>),
                JStr(<<"4", "0", "9">>), JStr(<<"z", "z">>)},
        bs \in {Absent, JInt(0), JInt(100), JInt(101), JInt(150), JNull} }

Returned(r) == [fn |-> fnIn.fn, r |-> r]

InitFn ==
    /\ variant = "curses"
    /\ state = "Idle"
    /\ waitpc = "getch"
    /\ polls = PollsPerWait
    /\ keybuf = <<>>
    /\ outcome = "none"
    /\ snapshot = <<>>
    /\ surface = Blank
    /\ fetches = 0
    /\ banRequests = <<>>
    /\ sig = NoSignal
    /\ fnOut = NoCall
    /\ \/ fnIn \in [fn : {"decode_services", "decode_services_monitor"}, arg : ServicesArgs]
       \/ fnIn \in [fn : {"translate_services"}, arg : Masks]
       \/ fnIn \in [fn : {"connection_duration", "connection_duration_monitor"},
                     elapsed : Elapsed, now : Clock]
       \/ fnIn \in [fn : {"format_pingtime"}, arg : PingArgs]
       \/ fnIn \in [fn : {"analyze_peers"}, arg : SeqsUpTo(PolicyPool, MaxPeers)]

Call(name, r) ==
    /\ fnIn.fn = name
    /\ fnOut = NoCall
    /\ fnOut' = Returned(r)
    /\ UNCHANGED <<fnIn, variant, state, waitpc, polls, keybuf, outcome, snapshot,
                   surface, fetches, banRequests, sig>>

CallDecodeServices == Call("decode_services", decode_services(fnIn.arg))
CallDecodeServicesMonitor == Call("decode_services_monitor", decode_services_monitor(fnIn.arg))
CallTranslateServices == Call("translate_services", translate_services(fnIn.arg))
CallConnectionDuration ==
    Call("connection_duration", connection_duration(fnIn.now - fnIn.elapsed, fnIn.now))
CallConnectionDurationMonitor ==
    Call("connection_duration_monitor",
         connection_duration_monitor(fnIn.now - fnIn.elapsed, fnIn.now))
CallFormatPingtime == Call("format_pingtime", format_pingtime(fnIn.arg))
CallAnalyzePeers == Call("analyze_peers", analyze_peers(fnIn.arg))

NextFn ==
    \/ CallDecodeServices
    \/ CallDecodeServicesMonitor
    \/ CallTranslateServices
    \/ CallConnectionDuration
    \/ CallConnectionDurationMonitor
    \/ CallFormatPingtime
    \/ CallAnalyzePeers

SpecFn == InitFn /\ [][NextFn]_vars

-----------------------------------------------------------------------------
(* Properties *)

\* bit k of m, by division
HasBit(m, k) == (m \div Pow2(k)) % 2 = 1

\* the services of a well-formed peer record, as an integer
ServicesOf(peer) == IntBase16(Get(peer.services, JStr(<<"0">>))).v
WellFormed(peer) ==
    /\ IntBase16(Get(peer.services, JStr(<<"0">>))).ok
    /\ peer.pingtime.t \in {"absent", "num"}
    /\ peer.banscore.t \in {"absent", "int"}

\* the table on the screen is the one of the running cycle
FreshTable == state = "Waiting" /\ surface.kind = "table" /\ surface.cycle = fetches

\* C1: a fetch failure (non-zero exit, command unreachable, output that is
\* not JSON) never ends the loop, in any variant: no loop is ever left with
\* the exception of a failed fetch.
C1_FetchFailureNeverEndsLoop ==
    state = "Crashed" => surface.exc \notin {"FileNotFoundError", "JSONDecodeError"}

\* C2: once a cancellation signal has arrived while the loop was in Waiting,
\* no further fetch is started.
C2_NoFetchAfterCancelInWaiting ==
    (sig.kind # "none" /\ sig.at = "Waiting") => fetches = sig.cycle

\* C3: in the rich tables a row is highlighted if and only if bit 0
\* (NETWORK) is clear in the services of its peer, whatever the other bits.
C3_HighlightIffNetworkMissing ==
    (Rich /\ FreshTable) =>
        \A i \in 1..Len(surface.rows) :
            (surface.rows[i].style = "yellow") <=> ~HasBit(ServicesOf(snapshot[i]), 0)

\* the decision C4 states for one well-formed peer
Decision(peer) ==
    IF Get(peer.banscore, JInt(0)).n > BanScoreLimit THEN "RequestBan"
    ELSE IF ~HasBit(ServicesOf(peer), 0) THEN "Warn"
    ELSE "None"

\* C4: for every well-formed peer analyze_peers decides RequestBan when
\* banscore > threshold, otherwise Warn when bit 0 (NETWORK) is clear,
\* otherwise None.
C4_PolicyDecision ==
    (fnOut.fn = "analyze_peers" /\ \A i \in 1..Len(fnIn.arg) : WellFormed(fnIn.arg[i])) =>
        /\ Len(fnOut.r.actions) = Len(fnIn.arg)
        /\ \A i \in 1..Len(fnIn.arg) : fnOut.r.actions[i].act = Decision(fnIn.arg[i])

\* the ips of the peers of a snapshot whose banscore is over the threshold
RECURSIVE OverThreshold(_)
OverThreshold(peers) ==
    IF peers = <<>> THEN <<>>
    ELSE (IF Get(Head(peers).banscore, JInt(0)).n > BanScoreLimit
          THEN <<SplitFirstColon(Head(peers).addr)>> ELSE <<>>)
         \o OverThreshold(Tail(peers))

\* C5: when the first cycle's fetch has succeeded and the loop waits, one ban
\* request has been issued for each peer over the threshold, and no other.
C5_OneBanPerPeerOverThreshold ==
    (state = "Waiting" /\ outcome = "ok" /\ fetches = 1
        /\ \A i \in 1..Len(snapshot) : WellFormed(snapshot[i]))
    => banRequests = OverThreshold(snapshot)

\* text.split(", ")
RECURSIVE Split(_, _)
Split(text, word) ==
    IF text = <<>> THEN (IF word = <<>> THEN <<>> ELSE <<word>>)
    ELSE IF Len(text) >= 2 /\ SubSeq(text, 1, 2) = CommaSpace
         THEN <<word>> \o Split(SubSeq(text, 3, Len(text)), <<>>)
    ELSE Split(Tail(text), Append(word, Head(text)))

\* the enumerations, with the bit position of each tag
LongTagBits == << [tag |-> <<"N", "_", "N">>, pos |-> 0],
                  [tag |-> <<"N", "_", "W">>, pos |-> 3],
                  [tag |-> <<"N", "_", "C", "_", "F">>, pos |-> 6],
                  [tag |-> <<"N", "_", "N", "_", "L">>, pos |-> 10] >>
ShortTagBits == << [tag |-> <<"N">>, pos |-> 0],
                   [tag |-> <<"W">>, pos |-> 3],
                   [tag |-> <<"C", "_", "F">>, pos |-> 6],
                   [tag |-> <<"N", "_", "L">>, pos |-> 10] >>
NameBits == << [tag |-> "NODE_NETWORK", pos |-> 0],
               [tag |-> "NODE_GETUTXOS", pos |-> 1],
               [tag |-> "NODE_BLOOM", pos |-> 2],
               [tag |-> "NODE_WITNESS", pos |-> 3],
               [tag |-> "NODE_XTHIN", pos |-> 4],
               [tag |-> "NODE_NETWORK_LIMITED", pos |-> 30] >>

\* out lists exactly the tags of enum whose bit is set in m, in enum's order
DecodesMask(out, m, enum) ==
    /\ \A k \in 1..Len(enum) :
          (\E i \in 1..Len(out) : out[i] = enum[k].tag) <=> HasBit(m, enum[k].pos)
    /\ \A i \in 1..Len(out) : \E k \in 1..Len(enum) : out[i] = enum[k].tag
    /\ \A i, j \in 1..Len(out) :
          i < j => \E k, l \in 1..Len(enum) :
                      k < l /\ out[i] = enum[k].tag /\ out[j] = enum[l].tag
    /\ m = 0 => out = <<>>

\* C6: every decoder returns, without error, exactly the enumerated tags
\* whose bit is set in the mask, in enumeration order; bits of no tag add
\* nothing; mask 0 gives the empty output.
C6_DecodeIffBitSet ==
    /\ (fnOut.fn = "decode_services" /\ IntBase16(fnIn.arg).ok) =>
          fnOut.r.ok /\ DecodesMask(Split(fnOut.r.v, <<>>), IntBase16(fnIn.arg).v, LongTagBits)
    /\ (fnOut.fn = "decode_services_monitor" /\ IntBase16(fnIn.arg).ok) =>
          fnOut.r.ok /\ DecodesMask(Split(fnOut.r.v, <<>>), IntBase16(fnIn.arg).v, ShortTagBits)
    /\ fnOut.fn = "translate_services" => DecodesMask(fnOut.r, fnIn.arg, NameBits)

\* decode_services was called on 0x40b: NETWORK, WITNESS, NETWORK_LIMITED
\* and bit 1, which no tag of that decoder names
C6_Witness ==
    /\ fnOut.fn = "decode_services"
    /\ fnIn.arg = JStr(<<"4", "0", "b">>)
    /\ fnOut.r = Ok(<<"N", "_", "N", ",", " ", "N", "_", "W", ",", " ", "N", "_", "N", "_", "L">>)

\* C7: a malformed services or pingtime field never makes row building
\* fail: no loop shows or dies of the exception of a field, and the table of
\* a cycle whose fetch succeeded has one row for each peer.
C7_MalformedFieldKeepsRows ==
    /\ surface.exc \notin {"ValueError", "TypeError"}
    /\ (state = "Waiting" /\ outcome = "ok" /\ surface.cycle = fetches) =>
          surface.kind = "table" /\ Len(surface.rows) = Len(snapshot)

\* the text C8 states for an elapsed time
Suffix(text, n) == SubSeq(text, Len(text) - n + 1, Len(text))
DurationAsSpecified(text, elapsed) ==
    LET e == IF elapsed < 0 THEN 0 ELSE elapsed
    IN  IF e <= 86400
        THEN text = ZeroPad(e \div 3600, 2) \o <<":">> \o ZeroPad((e % 3600) \div 60, 2)
                    \o <<":">> \o ZeroPad(e % 60, 2)
        ELSE Len(text) > 5 /\ Suffix(text, 5) = <<" ", "d", "a", "y", "s">>

\* C8: connection_duration clamps a negative elapsed time to zero, gives
\* zero-padded HH:MM:SS up to 86400 seconds and a day count with the "days"
\* suffix above.
C8_DurationFormat ==
    fnOut.fn \in {"connection_duration", "connection_duration_monitor"} =>
        DurationAsSpecified(fnOut.r, fnIn.elapsed)

\* C9: while the loop waits after a failed fetch, the screen shows an error
\* banner or a table built from a fetch that succeeded.
C9_FailureShowsBannerOrPriorTable ==
    (state = "Waiting" /\ outcome \notin {"ok", "none"}) =>
        \/ surface.kind = "error"
        \/ surface.kind = "table" /\ surface.from = "ok"

-----------------------------------------------------------------------------
(* C11: a hung fetch and the cancellation signal *)

Ended == state \in {"Cancelled", "Crashed"}

\* C11: a fetch that never returns does not block cancellation for ever: once
\* a cancellation signal (the quit key or an interrupt) has been issued and
\* the fetch in flight is hung, the loop eventually ends. This is what the
\* statement asks for at the least: it names Cancelled as the end, reached
\* by way of a timeout that turns the hang into a fetch failure.
C11_HungFetchDoesNotBlockCancel ==
    (sig.kind # "none" /\ outcome = "hung") ~> Ended

-----------------------------------------------------------------------------
(* C12: one fetch and render cycle at a time *)

\* the wait of the loop has run out: the last of the refresh_rate * 10 naps
\* of the curses loop, the return of sleep() in the rich loops
WaitElapsed ==
    /\ state = "Waiting"
    /\ variant = "curses" => (waitpc = "napms" /\ polls = 1)

\* the fetch last started has returned and its table, or the banner of its
\* failure, is on the screen
CycleComplete ==
    /\ outcome \notin {"none", "hung"}
    /\ surface.kind \in {"table", "error"}
    /\ surface.cycle = fetches

\* C12: at most one fetch and render cycle is in flight: a fetch is started
\* either as the first of the run, or after the previous fetch has returned,
\* its render has completed and the wait has run out; this in every variant
\* of the loop and however long the fetch takes, a fetch that never returns
\* included.
C12_OneCycleInFlight ==
    [][(fetches' # fetches) =>
          /\ fetches' = fetches + 1
          /\ state' = "Fetching"
          /\ \/ state = "Idle" /\ fetches = 0
             \/ CycleComplete /\ WaitElapsed]_vars

C12_Witness ==
    /\ state = "Fetching" /\ fetches = 2
    /\ surface.kind = "table" /\ surface.cycle = 1

====
